---- MODULE Spec2Model ----
(***************************************************************************)
(* The execution trace recorder (promptflow/tracing/_tracer.py), the       *)
(* streaming output proxy it wraps lazy outputs in, and the init context   *)
(* of the test submitter (promptflow/_sdk/_submitter/test_submitter.py)    *)
(* with the teardown of its executor proxy.                                *)
(*                                                                         *)
(* Python values are encoded as tagged tuples so that any two of them can  *)
(* be compared: <<"None">>, <<"val", x>> (a JSON scalar), <<"obj", x>> (an *)
(* object json cannot encode), <<"iter", items>> (a fresh lazy sequence),  *)
(* <<"proxy", p>> (GeneratorProxy number p), <<"gen", p>> (the generator   *)
(* generate_from_proxy returns over proxy p).  Scalar fields that hold a   *)
(* string or None use "None" for None; ids and timestamps are positive     *)
(* integers and 0 stands for an unset (falsy) one.                         *)
(***************************************************************************)
EXTENDS Integers, Sequences, FiniteSets, TLC

VARIABLES
    tracer,     \* unit -> the Tracer bound to the unit's context (context_var)
    cur,        \* unit -> value of the bound Tracer's _current_trace_id there
    heap,       \* the Trace objects created so far; a trace's id is its index
    proxies,    \* the GeneratorProxy objects created so far
    clock,      \* what datetime.utcnow().timestamp() returns now (1, 2, ...)
    ret,        \* what the latest call of the recorder returned
    npush,      \* unit -> push calls made since the unit's context was bound
    scen,       \* how far the calls since the latest start follow Scenario
    sub,        \* the TestSubmitter's fields
    executors   \* the executor proxies created so far, each with its streams

vars == <<tracer, cur, heap, proxies, clock, ret, npush, scen, sub, executors>>
tracerVars == <<tracer, cur, heap, proxies, clock, ret, npush, scen>>
submitterVars == <<sub, executors>>

\* ------------------------------------------------------------------ bounds
\* Trace objects pushed in one behaviour.
MaxTraces == 3
\* Streams (lazy outputs) created in one behaviour.
MaxProxies == 2
\* Executor proxies created in one behaviour.
MaxExecutors == 2
\* The latest time the clock reaches.
MaxClock == 2
\* Calls of flow_test waiting for their aggregation at one time.
MaxTests == 1

\* ------------------------------------------------------------- input sets
Units == {"A", "B"}
RunIds == {"None", "r1", "r2"}
\* The (run_id, node_name) pairs start_tracing is called with.
StartArgs == {<<"None", "None">>, <<"r1", "n1">>}

NoneV == <<"None">>
Val(x) == <<"val", x>>
Obj(x) == <<"obj", x>>
Iter(items) == <<"iter", items>>
ProxyRef(p) == <<"proxy", p>>
Gen(p) == <<"gen", p>>
ListV(s) == <<"list", s>>

\* An exception is its text and the name of its class.
ErrE == [msg |-> "E", cls |-> "ValueError"]
NoErr == [msg |-> "None", cls |-> "None"]

\* ------------------------------------------------------------------ state
\* What a context holds when no Tracer is bound in it.
NoTracer == [bound |-> FALSE, tid |-> 0, run_id |-> "None",
             node_name |-> "None", traces |-> <<>>, ids |-> {},
             refused |-> FALSE]

\* The identity of a new Tracer object: the first number that no Tracer
\* bound in some context bears.
NewTid ==
    CHOOSE n \in 1..(Cardinality(Units) + 1) :
        /\ \A v \in Units : tracer[v].tid # n
        /\ \A m \in 1..(n - 1) : \E v \in Units : tracer[v].tid = m

\* Tracer.__init__: traces is _traces, ids the keys of _id_to_trace; tid
\* tells the object from the other Tracer objects, refused that a start
\* call has been made while the object was bound.
NewTracer(run_id, node_name) ==
    [bound |-> TRUE, tid |-> NewTid, run_id |-> run_id,
     node_name |-> node_name, traces |-> <<>>, ids |-> {},
     refused |-> FALSE]

\* The arguments of a traced call: one json can encode and one it cannot.
CallInputs == [x |-> Val(1), conn |-> Obj("conn")]

\* The Trace _create_trace_from_function_call returns, as the caller hands
\* it to push: no id, no parent, nothing recorded, start_time the time of its
\* creation.
\* owner is the unit that pushed it, popper the unit that popped it last,
\* poppers the units that have popped it, npop the number of pops that have
\* written to it (2 for two or more), open whether it has been pushed and
\* not popped since, seq its number among the pushes of its context (0 until it
\* is pushed).
NewTrace(name, u) ==
    [name |-> name, inputs |-> CallInputs, output |-> NoneV, error |-> NoneV,
     start_time |-> clock, end_time |-> 0, parent_id |-> 0,
     node_name |-> "None",
     children |-> <<>>, owner |-> u, popper |-> "None", poppers |-> {},
     npop |-> 0, open |-> FALSE, seq |-> 0]

\* Mutant: one context shared by every unit (a process-wide singleton).
context_of_shared(u) == "A"

\* context_var and _current_trace_id are ContextVars: each execution unit
\* reads and writes the value held in its own context.
context_of(u) == u

\* ThreadLocalSingleton.active_instance
active_instance(u) == tracer[context_of(u)]

\* Mutant: the new Tracer takes the place of the one that is bound.
activate_in_context_rebind(u, t) == [tracer EXCEPT ![context_of(u)] = t]

\* ThreadLocalSingleton._activate_in_context: at most one Tracer is bound in
\* a context, and the one that is bound stays.
activate_in_context(u, t) ==
    IF tracer[context_of(u)].bound THEN tracer
    ELSE [tracer EXCEPT ![context_of(u)] = t]

\* ThreadLocalSingleton._deactivate_in_context
deactivate_in_context(u) == [tracer EXCEPT ![context_of(u)] = NoTracer]

current_run_id(u) ==
    IF ~active_instance(u).bound THEN "None" ELSE active_instance(u).run_id

\* What a call that raised hands its caller: the exception.
Raise(cls) == <<"raise", cls>>

\* Tracer._get_current_trace raises KeyError: an id is current that is no
\* key of the bound Tracer's _id_to_trace.
lookup_fails(u) ==
    cur[context_of(u)] # 0 /\ cur[context_of(u)] \notin active_instance(u).ids

\* Tracer._get_current_trace: 0 when no trace is current, else the trace
\* the id is looked up to in _id_to_trace.
get_current_trace(u) ==
    IF cur[context_of(u)] = 0 THEN 0
    ELSE CHOOSE id \in active_instance(u).ids : id = cur[context_of(u)]

\* Mutant: the text and the class name change places.
format_error_swapped(e) == [message |-> e.cls, type |-> e.msg]

\* Tracer._format_error
format_error(e) == [message |-> e.msg, type |-> e.cls]

\* Tracer.to_serializable of a value that is no mapping: serialize() and
\* json.dumps keep what json can encode, anything else becomes its text, and
\* a GeneratorProxy is passed through as it is.
to_serializable(v) ==
    IF v[1] = "proxy" THEN v
    ELSE IF v[1] = "obj" THEN Val(<<"str", v[2]>>)
    ELSE v

\* Tracer.to_serializable of a mapping with string keys: key by key.
to_serializable_dict(d) == [k \in DOMAIN d |-> to_serializable(d[k])]

\* ------------------------------------------------- the serialized tree
RECURSIVE SerTraces(_, _, _)
\* Mutant: a trace's output is returned as it is stored.
SerOutput_live(h, px, v) == v

\* serialize() of a trace's output: a GeneratorProxy becomes the plain
\* sequence of the items buffered so far.
SerOutput(h, px, v) ==
    IF v[1] = "proxy" THEN ListV(px[v[2]].items) ELSE v

SerTrace(h, px, id) ==
    [id |-> id, name |-> h[id].name, inputs |-> h[id].inputs,
     output |-> SerOutput(h, px, h[id].output),
     error |-> h[id].error, start_time |-> h[id].start_time,
     end_time |-> h[id].end_time, parent_id |-> h[id].parent_id,
     node_name |-> h[id].node_name,
     children |-> SerTraces(h, px, h[id].children)]

SerTraces(h, px, ids) ==
    [i \in 1..Len(ids) |-> SerTrace(h, px, ids[i])]

to_json(t) == SerTraces(heap, proxies, t.traces)

\* ---------------------------------------------------------- the scenario
\* push flow, push tool_a, pop(1), push tool_b, pop(error E), pop(2).
Scenario ==
    << <<"push", "flow">>, <<"push", "tool_a">>, <<"pop", Val(1), NoErr>>,
       <<"push", "tool_b">>, <<"pop", NoneV, ErrE>>, <<"pop", Val(2), NoErr>> >>

ScenUnit == "B"

Follow(u, call) ==
    IF u = ScenUnit /\ scen >= 0 /\ scen < Len(Scenario) /\ Scenario[scen + 1] = call
    THEN scen + 1 ELSE -1

\* ------------------------------------------------------------------- Init
\* TestSubmitter.__init__ for a flow written in language: nothing of the
\* init context is set.  executor is the number of the executor proxy held
\* in _executor_proxy, 0 for None; dataplane says that _dataplane_flow is
\* set; inits holds the calls of init in progress (InitCall); tests holds,
\* for each call of flow_test that waits for its aggregation, the executor
\* proxy that runs it and how it went ("None" until it has run); outcome is how the latest call ended.
Languages == {"python", "csharp", "other"}

NewSubmitter(language) ==
    [language |-> language, flow |-> "origin", within |-> FALSE,
     target_node |-> "None", stream |-> FALSE, executor |-> 0,
     dataplane |-> FALSE, inits |-> <<>>, tests |-> <<>>,
     outcome |-> "None"]

InitRecorder ==
    /\ tracer = [u \in Units |-> NoTracer]
    /\ cur = [u \in Units |-> 0]
    /\ heap = <<>>
    /\ proxies = <<>>
    /\ clock = 1
    /\ ret = NoneV
    /\ npush = [u \in Units |-> 0]
    /\ scen = -1

Init ==
    /\ InitRecorder
    /\ sub = NewSubmitter("python")
    /\ executors = <<>>

InitSubmitter ==
    /\ InitRecorder
    /\ sub \in {NewSubmitter(l) : l \in Languages}
    /\ executors = <<>>

\* ------------------------------------------------------------ the recorder
\* Tracer.start_tracing
start_tracing(u, run_id, node_name) ==
    LET after == activate_in_context(u, NewTracer(run_id, node_name))
        isnew == after[context_of(u)].tid # tracer[context_of(u)].tid
    IN
    /\ IF current_run_id(u) = "None" /\ isnew
       THEN /\ tracer' = after
            /\ cur' = [cur EXCEPT ![context_of(u)] = 0]
            /\ npush' = [npush EXCEPT ![context_of(u)] = 0]
       ELSE /\ tracer' = IF tracer[context_of(u)].bound
                         THEN [v \in Units |->
                                 IF tracer[v].tid = tracer[context_of(u)].tid
                                 THEN [tracer[v] EXCEPT !.refused = TRUE]
                                 ELSE tracer[v]]
                         ELSE tracer
            /\ UNCHANGED <<cur, npush>>
    /\ scen' = IF u = ScenUnit /\ current_run_id(u) = "None" /\ isnew
               THEN 0 ELSE -1
    /\ ret' = NoneV
    /\ UNCHANGED <<heap, proxies, clock, sub, executors>>

\* Mutant: end_tracing without the run id check.
end_tracing_unchecked(u, run_id) ==
    /\ IF ~active_instance(u).bound
       THEN /\ ret' = ListV(<<>>)
            /\ UNCHANGED <<tracer, cur>>
       ELSE /\ ret' = ListV(to_json(active_instance(u)))
            /\ tracer' = deactivate_in_context(u)
            /\ cur' = [cur EXCEPT ![context_of(u)] = 0]
    /\ scen' = -1
    /\ UNCHANGED <<heap, proxies, clock, npush, sub, executors>>

\* Mutant: end_tracing returns the tree and leaves the Tracer bound.
end_tracing_keep(u, run_id) ==
    /\ IF ~active_instance(u).bound
       THEN ret' = ListV(<<>>)
       ELSE IF run_id # "None" /\ active_instance(u).run_id # run_id
       THEN ret' = ListV(<<>>)
       ELSE ret' = ListV(to_json(active_instance(u)))
    /\ scen' = -1
    /\ UNCHANGED <<tracer, cur, heap, proxies, clock, npush, sub, executors>>

\* Tracer.end_tracing
end_tracing(u, run_id) ==
    /\ IF ~active_instance(u).bound
       THEN /\ ret' = ListV(<<>>)
            /\ UNCHANGED <<tracer, cur>>
       ELSE IF run_id # "None" /\ active_instance(u).run_id # run_id
       THEN /\ ret' = ListV(<<>>)
            /\ UNCHANGED <<tracer, cur>>
       ELSE /\ ret' = ListV(to_json(active_instance(u)))
            /\ tracer' = deactivate_in_context(u)
            /\ cur' = [cur EXCEPT ![context_of(u)] = 0]
    /\ scen' = -1
    /\ UNCHANGED <<heap, proxies, clock, npush, sub, executors>>

\* The assignments Tracer._push makes to trace object id before it looks
\* the current trace up: inputs normalised, children cleared, start_time set
\* if it has none.
PushStamp(h, id) ==
    [h EXCEPT ![id].inputs = to_serializable_dict(@),
              ![id].start_time = IF h[id].start_time = 0 THEN clock ELSE @,
              ![id].children = <<>>]

\* The bookkeeping of a push that went through: trace id is open and is the
\* seq-th trace pushed in u's context.
PushMark(u, h, id) ==
    [h EXCEPT ![id].open = TRUE, ![id].seq = npush[context_of(u)] + 1]

\* Mutant: the child is inserted in front of its siblings.
PushTrace_prepend(u, id, h) ==
    LET parent == get_current_trace(u)
        stamped == PushMark(u, PushStamp(h, id), id)
    IN  IF parent = 0
        THEN [stamped EXCEPT ![id].node_name = active_instance(u).node_name]
        ELSE [stamped EXCEPT ![parent].children = <<id>> \o @,
                             ![id].parent_id = parent]

\* The assignments of Tracer._push to the trace object id of h and to its
\* parent.
PushTrace(u, id, h) ==
    LET parent == get_current_trace(u)
        stamped == PushMark(u, PushStamp(h, id), id)
    IN  IF parent = 0
        THEN [stamped EXCEPT ![id].node_name = active_instance(u).node_name]
        ELSE [stamped EXCEPT ![parent].children = Append(@, id),
                             ![id].parent_id = parent]

\* The root list after Tracer._push of trace id.
PushRoots(u, id) ==
    IF get_current_trace(u) = 0 THEN Append(active_instance(u).traces, id)
    ELSE active_instance(u).traces

\* The contexts after the Tracer bound in u's context has become t: every
\* context in which that Tracer object is bound sees the change.
WriteTracer(u, t) ==
    [v \in Units |->
        IF tracer[v].bound /\ tracer[v].tid = active_instance(u).tid
        THEN t ELSE tracer[v]]

\* Tracer._push of trace object id of h (h is the heap with the object the
\* caller passes).  The lookup of the current trace comes after the first
\* assignments to the object, which stay when it raises.
_push_trace(u, id, h) ==
    IF lookup_fails(u)
    THEN /\ heap' = PushStamp(h, id)
         /\ ret' = Raise("KeyError")
         /\ UNCHANGED <<tracer, cur, npush>>
    ELSE /\ heap' = PushTrace(u, id, h)
         /\ tracer' = WriteTracer(u, [active_instance(u) EXCEPT
                                         !.traces = PushRoots(u, id),
                                         !.ids = @ \cup {id}])
         /\ cur' = [cur EXCEPT ![context_of(u)] = id]
         /\ npush' = [npush EXCEPT ![context_of(u)] = @ + 1]
         /\ ret' = NoneV

\* Tracer._push of a trace object the caller has just created.
_push(u, name) ==
    _push_trace(u, Len(heap) + 1, Append(heap, NewTrace(name, u)))

\* Tracer.push
push(u, name) ==
    /\ IF ~active_instance(u).bound
       THEN ret' = NoneV /\ UNCHANGED <<tracer, cur, heap, npush>>
       ELSE _push(u, name)
    /\ scen' = Follow(u, <<"push", name>>)
    /\ UNCHANGED <<proxies, clock, sub, executors>>

\* Tracer.push of trace object id, which the caller holds: one it has
\* created and not pushed yet, or one that has been pushed before.
push_again(u, id) ==
    /\ id \in 1..Len(heap)
    /\ IF ~active_instance(u).bound
       THEN ret' = NoneV /\ UNCHANGED <<tracer, cur, heap, npush>>
       ELSE _push_trace(u, id, heap)
    /\ scen' = -1
    /\ UNCHANGED <<proxies, clock, sub, executors>>

\* What Tracer._pop records on the current trace.
PopTrace(u, last, output, error) ==
    [heap EXCEPT ![last].output =
                     IF output # NoneV THEN to_serializable(output) ELSE @,
                 ![last].error =
                     IF error # NoErr THEN Val(format_error(error)) ELSE @,
                 ![last].end_time = clock,
                 ![last].popper = u,
                 ![last].poppers = @ \cup {u},
                 ![last].open = FALSE,
                 ![last].npop = IF @ < 2 THEN @ + 1 ELSE @]

\* Mutant: pop leaves no trace current.
PopCurrent_none(u, last) == 0

\* What Tracer._pop makes current: the popped trace's parent.
PopCurrent(u, last) == heap[last].parent_id

\* The consumers of a chat round's streaming output, which share it: the
\* node log display, the chat output printer and the result resolver.
Consumers == {"log", "chat", "result"}

\* Mutant: the proxy reads the whole sequence when it is constructed.
GeneratorProxy_eager(output, last, handle) ==
    [src |-> output[2], pos |-> Len(output[2]), items |-> output[2],
     yielded |-> <<>>, done |-> FALSE, trace |-> last, handle |-> handle,
     got |-> [c \in Consumers |-> <<>>]]

\* GeneratorProxy(output) for the trace it is the output of: nothing read,
\* nothing buffered.  src and pos are the wrapped lazy sequence and how far
\* it has been read; yielded is what consumers have received from it, got
\* what each of the consumers that share it has received; handle is what
\* its creator has handed to the consumer to iterate.
GeneratorProxy(output, last, handle) ==
    [src |-> output[2], pos |-> 0, items |-> <<>>, yielded |-> <<>>,
     done |-> FALSE, trace |-> last, handle |-> handle,
     got |-> [c \in Consumers |-> <<>>]]

\* generate_from_proxy(proxy p): a generator that yields from the proxy.
generate_from_proxy(p) == Gen(p)

\* Mutant: the lazy output itself is handed back, not the proxy's generator.
PopReturn_raw(output, p) == output

\* What Tracer._pop hands back: generate_from_proxy(proxy p) for a lazy
\* output, else the output.
PopReturn(output, p) ==
    IF output[1] = "iter" THEN generate_from_proxy(p) ELSE output

\* Mutant: a bare return when no trace is current.
PopNothing_none(output) == NoneV

\* What Tracer._pop returns when no trace is current.
PopNothing(output) == output

\* Tracer._pop
_pop(u, output, error) ==
    LET last == get_current_trace(u)
        p == Len(proxies) + 1
    IN  IF lookup_fails(u)
        THEN /\ ret' = Raise("KeyError")
             /\ UNCHANGED <<cur, heap, proxies>>
        ELSE IF last = 0
        THEN /\ ret' = PopNothing(output)
             /\ UNCHANGED <<cur, heap, proxies>>
        ELSE /\ proxies' = IF output[1] = "iter"
                           THEN Append(proxies, GeneratorProxy(output, last, PopReturn(output, p)))
                           ELSE proxies
             /\ heap' = PopTrace(u, last,
                          IF output[1] = "iter" THEN ProxyRef(p) ELSE output, error)
             /\ cur' = [cur EXCEPT ![context_of(u)] = PopCurrent(u, last)]
             /\ ret' = PopReturn(output, p)

\* Mutant: a bare return when no Tracer is active.
PopInactive_none(output) == NoneV

\* What Tracer.pop returns when no Tracer is active.
PopInactive(output) == output

\* Tracer.pop
pop(u, output, error) ==
    /\ IF ~active_instance(u).bound
       THEN /\ ret' = PopInactive(output)
            /\ UNCHANGED <<cur, heap, proxies>>
       ELSE _pop(u, output, error)
    /\ scen' = Follow(u, <<"pop", output, error>>)
    /\ UNCHANGED <<tracer, clock, npush, sub, executors>>

\* A caller creates the trace of a call and holds it, to push it later.
create_trace(u, name) ==
    /\ heap' = Append(heap, NewTrace(name, u))
    /\ UNCHANGED <<tracer, cur, proxies, clock, ret, npush, scen, sub, executors>>

\* Time passes: datetime.utcnow().timestamp() returns another value from
\* now on.  timestamp() reads the naive UTC time as a local time, so across
\* a change of the local zone's offset the value may be lower than before.
Tick ==
    /\ \E t \in 1..MaxClock : t # clock /\ clock' = t
    /\ UNCHANGED <<tracer, cur, heap, proxies, ret, npush, scen, sub, executors>>

\* asyncio.create_task run by unit parent: unit child is the new task, and
\* its context is a copy of parent's at this moment: the same Tracer object
\* is bound in it, and the Tracer's _current_trace_id has parent's value
\* there until child sets it.
create_task(parent, child) ==
    /\ parent # child
    /\ tracer' = [tracer EXCEPT ![child] = tracer[parent]]
    /\ cur' = [cur EXCEPT ![child] = cur[parent]]
    /\ npush' = [npush EXCEPT ![child] = npush[parent]]
    /\ scen' = IF child = ScenUnit THEN -1 ELSE scen
    /\ UNCHANGED <<heap, proxies, clock, ret, sub, executors>>

\* ------------------------------------------------------ streaming output
\* The lazy sequence of a call that streams its output.
StreamItems == <<"a", "b", "c">>

\* GeneratorProxy.__next__ reached through the handle of proxy p: one item
\* is pulled from the wrapped sequence, appended to the buffer and yielded;
\* when the wrapped sequence is over the proxy is done and the owning
\* trace's output becomes the buffer.  A consumer that holds the wrapped
\* sequence itself reads it past the proxy.
ProxyNext(px, p) ==
    IF px[p].pos < Len(px[p].src)
    THEN LET item == px[p].src[px[p].pos + 1] IN
         [px EXCEPT ![p].pos = @ + 1,
                    ![p].items = IF px[p].handle = Gen(p) THEN Append(@, item) ELSE @,
                    ![p].yielded = Append(@, item)]
    ELSE [px EXCEPT ![p].done = (px[p].handle = Gen(p))]

\* A consumer asks the sequence it was handed for its next item.
next_item(p) ==
    /\ p \in 1..Len(proxies)
    /\ ~proxies[p].done
    /\ proxies' = ProxyNext(proxies, p)
    /\ UNCHANGED <<tracer, cur, heap, clock, ret, npush, scen, sub, executors>>

\* Consumer c, one of those sharing the sequence of proxy p, asks it for
\* its next item: it receives the item pulled now, or nothing when the
\* wrapped sequence is over.
consume(c, p) ==
    /\ p \in 1..Len(proxies)
    /\ LET nxt == ProxyNext(proxies, p)
           px == IF proxies[p].pos < Len(proxies[p].src)
                 THEN [nxt EXCEPT ![p].got[c] =
                          Append(@, proxies[p].src[proxies[p].pos + 1])]
                 ELSE nxt
       IN proxies' = px
    /\ UNCHANGED <<tracer, cur, heap, clock, ret, npush, scen, sub, executors>>

\* ------------------------------------------------ the teardown gate
\* An executor proxy as CSharpExecutorProxy.create returns it when called
\* with enable_stream_output = stream: the service runs, no stream is
\* outstanding.  open says that the init context that created it has not
\* been exited.
NewExecutor(stream) ==
    [state |-> "alive", registry |-> {}, open |-> TRUE, stream |-> stream]

\* register(proxy): the stream joins the executor's outstanding set.
register(ex, e, p) == [ex EXCEPT ![e].registry = @ \cup {p}]

\* Mutant: one finished stream is enough.
all_exhausted_some(ex, px, e) ==
    ex[e].registry = {} \/ \E p \in ex[e].registry : px[p].done

\* all_exhausted(): every registered stream is done.
all_exhausted(ex, px, e) == \A p \in ex[e].registry : px[p].done

\* destroy(): the execution service is stopped.
destroy(ex, e) == [ex EXCEPT ![e].state = "destroyed"]

\* destroy_if_all_generators_exhausted()
release_when_ready(ex, px, e) ==
    IF all_exhausted(ex, px, e) THEN destroy(ex, e) ELSE ex

\* ------------------------------------------------------ the test submitter
\* Mutant: the finally block destroys the executor proxy whatever is read.
Teardown_destroy(ex, px, e) ==
    IF e # 0 THEN destroy(ex, e) ELSE ex

\* The finally block of TestSubmitter.init.
Teardown(ex, px, e) ==
    IF e # 0 THEN release_when_ready(ex, px, e) ELSE ex

\* The values init is given as target_node: None, the empty text, a name.
TargetNodes == {"None", "", "node"}

\* The values init is given as connections: None or a mapping with entries.
Connections == {"None", "given"}

\* The calls of init in progress without the i-th.
WithoutInit(i) == SubSeq(sub.inits, 1, i - 1) \o SubSeq(sub.inits, i + 1, Len(sub.inits))

\* The executor proxies after the init call that made proxy made is over.
Exited(ex, made) == IF made # 0 THEN [ex EXCEPT ![made].open = FALSE] ELSE ex

\* A call of init in progress.  pc is its position: creating (in the wait
\* for the executor proxy), body (at the yield), waiting (in the wait of the
\* finally block, the release not yet requested of the proxy), leaving
\* (the finally block is done).  stream is the stream_output it was called
\* with, made the executor proxy it created, target the executor proxy its
\* finally block read, raised whether its body ended with an exception.
InitCall(pc, stream) ==
    [pc |-> pc, stream |-> stream, made |-> 0, target |-> 0, raised |-> FALSE]

\* TestSubmitter.init from its call to the wait for the executor proxy of a
\* C# flow, or to its yield for another flow.  Connections given are taken
\* as they are; _resolve_connections raises for a flow that is neither a
\* Python nor a C# flow, after the fields above it are set.
init_enter(connections, target_node, stream_output) ==
    /\ sub' = [sub EXCEPT
          !.flow = "temp", !.within = TRUE,
          !.target_node = target_node, !.stream = stream_output,
          !.inits = IF connections = "None" /\ sub.language = "other" THEN @
                    ELSE IF sub.language = "csharp"
                    THEN Append(@, InitCall("creating", stream_output))
                    ELSE Append(@, InitCall("body", stream_output)),
          !.outcome = IF connections = "None" /\ sub.language = "other"
                      THEN "UserError"
                      ELSE IF sub.language = "csharp" THEN @ ELSE "ok"]
    /\ UNCHANGED <<tracer, cur, heap, proxies, clock, ret, npush, scen, executors>>

\* TestSubmitter.init of a C# flow from the end of its wait for
\* CSharpExecutorProxy.create to its yield.
init_create(i) ==
    /\ i \in 1..Len(sub.inits)
    /\ sub.inits[i].pc = "creating"
    /\ executors' = Append(executors, NewExecutor(sub.inits[i].stream))
    /\ sub' = [sub EXCEPT !.executor = Len(executors) + 1,
                          !.inits[i].pc = "body",
                          !.inits[i].made = Len(executors) + 1,
                          !.outcome = "ok"]
    /\ UNCHANGED <<tracer, cur, heap, proxies, clock, ret, npush, scen>>

\* TestSubmitter.init from its yield into its finally block: the body has
\* ended, with an exception (raised) or without.  The block reads the
\* guarded property executor_proxy, which raises outside an init context
\* (that exception leaves init); with a proxy read, the call waits for the
\* proxy's destroy_if_all_generators_exhausted.
init_exit(i, raised) ==
    /\ i \in 1..Len(sub.inits)
    /\ sub.inits[i].pc = "body"
    /\ IF ~sub.within
       THEN /\ executors' = Exited(executors, sub.inits[i].made)
            /\ sub' = [sub EXCEPT !.inits = WithoutInit(i),
                                  !.outcome = "UserError"]
       ELSE /\ sub' = [sub EXCEPT
                  !.inits[i].pc = IF sub.executor # 0 THEN "waiting"
                                  ELSE "leaving",
                  !.inits[i].target = sub.executor,
                  !.inits[i].raised = raised]
            /\ UNCHANGED executors
    /\ UNCHANGED <<tracer, cur, heap, proxies, clock, ret, npush, scen>>

\* The release request of the finally block reaches the executor proxy the
\* block read.
init_teardown(i) ==
    /\ i \in 1..Len(sub.inits)
    /\ sub.inits[i].pc = "waiting"
    /\ executors' = Teardown(executors, proxies, sub.inits[i].target)
    /\ sub' = [sub EXCEPT !.inits[i].pc = "leaving"]
    /\ UNCHANGED <<tracer, cur, heap, proxies, clock, ret, npush, scen>>

\* TestSubmitter.init after its finally block.  The body's exception goes
\* on out of init; without one, _resolve_variant takes the temporary flow
\* away and init resets the flag.
init_leave(i) ==
    /\ i \in 1..Len(sub.inits)
    /\ sub.inits[i].pc = "leaving"
    /\ executors' = Exited(executors, sub.inits[i].made)
    /\ sub' = IF sub.inits[i].raised
              THEN [sub EXCEPT !.inits = WithoutInit(i),
                               !.outcome = "raised"]
              ELSE [sub EXCEPT !.inits = WithoutInit(i), !.outcome = "ok",
                               !.within = FALSE, !.flow = "None",
                               !.dataplane = FALSE]
    /\ UNCHANGED <<tracer, cur, heap, proxies, clock, ret, npush, scen>>

\* The calls of flow_test that wait for their aggregation, without the j-th.
WithoutTest(j) == SubSeq(sub.tests, 1, j - 1) \o SubSeq(sub.tests, j + 1, Len(sub.tests))

\* TestSubmitter.flow_test up to its return, or to its wait for the
\* aggregation when the line has aggregation inputs (aggregation).  A
\* target_node that is None or empty lets the test run.  The line of a flow
\* that is not a Python flow runs in the executor proxy; a proxy created
\* for stream output returns a lazy sequence, outstanding at the proxy
\* until it is read to its end.
flow_test(aggregation) ==
    LET e == sub.executor
        p == Len(proxies) + 1
        after == IF aggregation
                 THEN [sub EXCEPT !.tests =
                          Append(@, [executor |-> e, result |-> "None"])]
                 ELSE [sub EXCEPT !.outcome = "ok"]
    IN
    /\ IF ~sub.within \/ sub.target_node \notin {"None", ""}
       THEN /\ sub' = [sub EXCEPT !.outcome = "UserError"]
            /\ UNCHANGED <<proxies, executors>>
       ELSE IF sub.language = "python"
       THEN /\ sub' = [sub EXCEPT !.outcome = "ok"]
            /\ UNCHANGED <<proxies, executors>>
       ELSE IF e = 0 \/ executors[e].state # "alive"
       THEN /\ sub' = [sub EXCEPT !.outcome = "failed"]
            /\ UNCHANGED <<proxies, executors>>
       ELSE IF executors[e].stream
       THEN /\ proxies' = Append(proxies,
                             GeneratorProxy(Iter(StreamItems), 0, Gen(p)))
            /\ executors' = register(executors, e, p)
            /\ sub' = after
       ELSE /\ sub' = after
            /\ UNCHANGED <<proxies, executors>>
    /\ UNCHANGED <<tracer, cur, heap, clock, ret, npush, scen>>

\* The aggregation of a waiting flow_test runs in the executor proxy read
\* before the wait, and fails when that proxy's service is gone.
flow_test_aggregate(j) ==
    /\ j \in 1..Len(sub.tests)
    /\ sub.tests[j].result = "None"
    /\ sub' = [sub EXCEPT !.tests[j].result =
                  IF executors[sub.tests[j].executor].state = "alive"
                  THEN "ok" ELSE "failed"]
    /\ UNCHANGED <<tracer, cur, heap, proxies, clock, ret, npush, scen, executors>>

\* TestSubmitter.flow_test from the end of its wait for
\* exec_aggregation_async to its return, or to the exception the
\* aggregation raised.
flow_test_aggregated(j) ==
    /\ j \in 1..Len(sub.tests)
    /\ sub.tests[j].result # "None"
    /\ sub' = [sub EXCEPT !.tests = WithoutTest(j),
                          !.outcome = sub.tests[j].result]
    /\ UNCHANGED <<tracer, cur, heap, proxies, clock, ret, npush, scen, executors>>

\* TestSubmitter.node_test
node_test ==
    /\ sub' = [sub EXCEPT !.outcome =
                  IF ~sub.within THEN "UserError"
                  ELSE IF sub.target_node = "None" THEN "UserError"
                  ELSE IF sub.language = "csharp" THEN "NotSupported"
                  ELSE "ok"]
    /\ UNCHANGED <<tracer, cur, heap, proxies, clock, ret, npush, scen, executors>>

\* The properties of TestSubmitter that call
\* _raise_if_not_within_init_context before they return their field.
GuardedProperties ==
    {"executor_proxy", "enable_stream_output", "flow", "output_base",
     "relative_flow_output_path", "target_node"}

\* TestSubmitter._raise_if_not_within_init_context
raise_if_not_within_init_context ==
    IF ~sub.within THEN "UserError" ELSE "ok"

\* A read of guarded property name.
read_property(name) ==
    /\ name \in GuardedProperties
    /\ sub' = [sub EXCEPT !.outcome = raise_if_not_within_init_context]
    /\ UNCHANGED <<tracer, cur, heap, proxies, clock, ret, npush, scen, executors>>

\* The property dataplane_flow: the flow it has loaded before is returned
\* as it is; otherwise it reads the guarded property flow and keeps what it
\* loads.
dataplane_flow ==
    /\ sub' = IF sub.dataplane THEN [sub EXCEPT !.outcome = "ok"]
              ELSE IF ~sub.within THEN [sub EXCEPT !.outcome = "UserError"]
              ELSE [sub EXCEPT !.outcome = "ok", !.dataplane = TRUE]
    /\ UNCHANGED <<tracer, cur, heap, proxies, clock, ret, npush, scen, executors>>

\* ------------------------------------------------------- specifications
\* The (output, error) pairs pop is called with by a traced call that
\* returns nothing, returns 1, or raises E.
PopArgs == {<<NoneV, NoErr>>, <<Val(1), NoErr>>, <<NoneV, ErrE>>}

\* One unit driving the recorder with every kind of call.
Next ==
    \/ \E a \in StartArgs : start_tracing("A", a[1], a[2])
    \/ \E r \in RunIds : end_tracing("A", r)
    \/ Len(heap) < MaxTraces /\ push("A", "flow")
    \/ \E a \in PopArgs : pop("A", a[1], a[2])

Spec == Init /\ [][Next]_vars

\* The scenario's vocabulary on one unit: as many pushes as Scenario has.
ScenarioPushes == Cardinality({i \in 1..Len(Scenario) : Scenario[i][1] = "push"})
ScenNames == {Scenario[i][2] : i \in {j \in 1..Len(Scenario) : Scenario[j][1] = "push"}}
ScenPopArgs ==
    {<<Scenario[i][2], Scenario[i][3]>> :
        i \in {j \in 1..Len(Scenario) : Scenario[j][1] = "pop"}}

NextNesting ==
    \/ start_tracing(ScenUnit, "r1", "n1")
    \/ end_tracing(ScenUnit, "None")
    \/ \E n \in ScenNames : Len(heap) < ScenarioPushes /\ push(ScenUnit, n)
    \/ \E a \in ScenPopArgs : pop(ScenUnit, a[1], a[2])

SpecNesting == Init /\ [][NextNesting]_vars

\* Two units, each starting, filling and ending a context of its own.
NextUnits ==
    \/ \E u \in Units : start_tracing(u, "r1", "n1")
    \/ \E u \in Units : end_tracing(u, "None")
    \/ \E u \in Units : Len(heap) < MaxTraces /\ push(u, "flow")
    \/ \E u \in Units : pop(u, Val(1), NoErr)

SpecUnits == Init /\ [][NextUnits]_vars

\* One unit whose traced calls return a value or a lazy sequence, and the
\* consumers of those sequences.
NextStream ==
    \/ start_tracing("A", "r1", "n1")
    \/ end_tracing("A", "None")
    \/ Len(heap) < MaxTraces /\ push("A", "flow")
    \/ pop("A", Val(1), NoErr)
    \/ Len(proxies) < MaxProxies /\ pop("A", Iter(StreamItems), NoErr)
    \/ \E p \in 1..Len(proxies) : next_item(p)

SpecStream == Init /\ [][NextStream]_vars

\* The calls of init that wait for the executor proxy they create.
Creating ==
    Cardinality({i \in 1..Len(sub.inits) : sub.inits[i].pc = "creating"})

\* The scenarios of the submitter: a call of init is made inside the body
\* of another or while another is waiting, never while two are in progress.
Overlap == 2

\* A submitter entering and leaving init contexts for flow tests, with the
\* flow tests and the consumers of the streams the tests return.
NextSubmitter ==
    \/ \E c \in Connections, so \in BOOLEAN :
          /\ Len(executors) + Creating < MaxExecutors
          /\ Len(sub.inits) < Overlap
          /\ init_enter(c, "None", so)
    \/ \E i \in 1..Len(sub.inits) : init_create(i)
    \/ \E i \in 1..Len(sub.inits), raised \in BOOLEAN : init_exit(i, raised)
    \/ \E i \in 1..Len(sub.inits) : init_teardown(i)
    \/ \E i \in 1..Len(sub.inits) : init_leave(i)
    \/ Len(proxies) < MaxProxies /\ flow_test(FALSE)
    \/ \E p \in 1..Len(proxies) : next_item(p)

SpecSubmitter == InitSubmitter /\ [][NextSubmitter]_vars

\* A submitter entering and leaving init contexts for flow tests and node
\* tests, with every operation that asks for the init context.
NextGuard ==
    \/ \E c \in Connections, t \in TargetNodes :
          /\ Len(executors) + Creating < MaxExecutors
          /\ Len(sub.inits) < Overlap
          /\ init_enter(c, t, FALSE)
    \/ \E i \in 1..Len(sub.inits) : init_create(i)
    \/ \E i \in 1..Len(sub.inits), raised \in BOOLEAN : init_exit(i, raised)
    \/ \E i \in 1..Len(sub.inits) : init_teardown(i)
    \/ \E i \in 1..Len(sub.inits) : init_leave(i)
    \/ \E aggregation \in BOOLEAN :
          /\ aggregation => Len(sub.tests) < MaxTests
          /\ flow_test(aggregation)
    \/ \E j \in 1..Len(sub.tests) : flow_test_aggregate(j)
    \/ \E j \in 1..Len(sub.tests) : flow_test_aggregated(j)
    \/ node_test
    \/ \E name \in GuardedProperties : read_property(name)
    \/ dataplane_flow

SpecGuard == InitSubmitter /\ [][NextGuard]_vars

\* Trace objects created in one behaviour of a test session or of a caller
\* that pushes trace objects again.
MaxObjects == 2
\* Push calls made on one context by a caller that pushes objects again.
MaxPushes == 3

InitSession ==
    /\ InitRecorder
    /\ sub = NewSubmitter("csharp")
    /\ executors = <<>>

\* A test session of a flow run by an executor proxy: one init context at a
\* time is entered and left, flow tests stream their results, and traced
\* calls made meanwhile return lazy sequences that consumers read.
NextSession ==
    \/ /\ sub.inits = <<>> /\ Len(executors) < MaxExecutors
       /\ init_enter("None", "None", TRUE)
    \/ \E i \in 1..Len(sub.inits) : init_create(i)
    \/ \E i \in 1..Len(sub.inits) : init_exit(i, FALSE)
    \/ \E i \in 1..Len(sub.inits) : init_teardown(i)
    \/ \E i \in 1..Len(sub.inits) : init_leave(i)
    \/ Len(proxies) < MaxProxies /\ flow_test(FALSE)
    \/ start_tracing("A", "r1", "n1")
    \/ Len(heap) < MaxObjects /\ push("A", "flow")
    \/ Len(proxies) < MaxProxies /\ pop("A", Iter(StreamItems), NoErr)
    \/ \E p \in 1..Len(proxies) : next_item(p)

SpecSession == InitSession /\ [][NextSession]_vars

\* A caller that keeps trace objects and pushes them again, in the same
\* context or in a later one (never the object that is current).
NextMisuse ==
    \/ start_tracing("A", "r1", "n1")
    \/ end_tracing("A", "None")
    \/ Len(heap) < MaxObjects /\ npush["A"] < MaxPushes /\ push("A", "flow")
    \/ \E id \in 1..Len(heap) :
          id # cur["A"] /\ npush["A"] < MaxPushes /\ push_again("A", id)
    \/ pop("A", Val(1), NoErr)

SpecMisuse == Init /\ [][NextMisuse]_vars

\* A main unit and a task it creates while its context is active: both
\* push and pop on the one Tracer, each at its own pace.
NextTasks ==
    \/ start_tracing("A", "r1", "n1")
    \/ tracer["A"].bound /\ create_task("A", "B")
    \/ \E u \in Units : Len(heap) < MaxTraces /\ push(u, "flow")
    \/ \E u \in Units : pop(u, Val(1), NoErr)

SpecTasks == Init /\ [][NextTasks]_vars

\* A caller that creates the traces of its calls, pushes each of them once,
\* at the time of its creation or later, and pops them, while time passes.
NextTime ==
    \/ start_tracing("A", "r1", "n1")
    \/ Tick
    \/ Len(heap) < MaxObjects /\ create_trace("A", "flow")
    \/ \E id \in 1..Len(heap) :
          id \notin tracer["A"].ids /\ tracer["A"].bound /\ push_again("A", id)
    \/ pop("A", Val(1), NoErr)

SpecTime == Init /\ [][NextTime]_vars

\* A traced call that streams its output to the consumers of a chat round,
\* which read it in any order and may go on reading after its end.
NextChat ==
    \/ start_tracing("A", "r1", "n1")
    \/ Len(heap) < MaxProxies /\ push("A", "flow")
    \/ Len(proxies) < MaxProxies /\ pop("A", Iter(StreamItems), NoErr)
    \/ \E c \in Consumers, p \in 1..Len(proxies) : consume(c, p)

SpecChat == Init /\ [][NextChat]_vars

\* ------------------------------------------------------ derived notions
\* Some call of init is at its yield: the body of its with block runs.
InBody == \E i \in 1..Len(sub.inits) : sub.inits[i].pc = "body"

RECURSIVE NodeCount(_)
\* The number of nodes of the forest whose roots are ids.
NodeCount(ids) ==
    IF ids = <<>> THEN 0
    ELSE 1 + NodeCount(heap[Head(ids)].children) + NodeCount(Tail(ids))

\* ids lists traces in the order in which they were pushed (ids are handed
\* out in push order).
InPushOrder(ids) == \A i, j \in 1..Len(ids) : i < j => ids[i] < ids[j]

AllNames == {"flow", "tool_a", "tool_b"}
AllPopArgs ==
    {<<NoneV, NoErr>>, <<Val(1), NoErr>>, <<Val(2), NoErr>>, <<NoneV, ErrE>>}

\* ------------------------------------------------------------- the claims
\* C1: while a context is active its tree (roots and all descendants) has
\* exactly as many nodes as push calls were made on it, and the root list
\* and every node's children are in the order in which they were pushed.
C1_NodeCountAndOrder ==
    \A u \in Units :
        tracer[u].bound =>
            /\ NodeCount(tracer[u].traces) = npush[u]
            /\ InPushOrder(tracer[u].traces)
            /\ \A id \in tracer[u].ids : InPushOrder(heap[id].children)

C1_Witness ==
    /\ tracer["A"].bound /\ npush["A"] = 3
    /\ \E id \in tracer["A"].ids : Len(heap[id].children) = 2

\* C3: a start call made while a context is bound leaves that context
\* bound and unchanged (the same Tracer, run id, node name, tree, current
\* trace), whatever run id it was bound with, and a push made after it is
\* recorded in that context's tree.
C3_SecondStartRejected ==
    [][\A u \in Units :
          /\ \A a \in StartArgs :
                (tracer[u].bound /\ start_tracing(u, a[1], a[2]))
                    => /\ tracer'[u] = [tracer[u] EXCEPT !.refused = TRUE]
                       /\ cur'[u] = cur[u] /\ heap' = heap
          /\ (tracer[u].bound /\ tracer[u].refused /\ Len(heap) < MaxTraces
                /\ push(u, "flow"))
                => /\ tracer'[u].tid = tracer[u].tid
                   /\ tracer'[u].run_id = tracer[u].run_id
                   /\ tracer'[u].node_name = tracer[u].node_name
                   /\ tracer'[u].ids = tracer[u].ids \cup {Len(heap) + 1}]_vars

\* A context bound with no run id has refused a start call and has recorded
\* pushes around it.
C3_Witness ==
    /\ tracer["A"].bound /\ tracer["A"].run_id = "None"
    /\ tracer["A"].refused /\ Len(tracer["A"].traces) = 2

\* C4: end(run_id) with a run id other than the active context's returns
\* an empty list and changes nothing of the context, so that end() would
\* return after it the tree it would have returned before it.
C4_EndMismatch ==
    [][\A u \in Units, r \in RunIds :
          (tracer[u].bound /\ r # "None" /\ r # tracer[u].run_id
             /\ end_tracing(u, r))
              => /\ ret' = ListV(<<>>)
                 /\ tracer'[u] = tracer[u] /\ cur'[u] = cur[u] /\ heap' = heap
                 /\ SerTraces(heap', proxies', tracer'[u].traces)
                        = to_json(tracer[u])]_vars

C4_Witness ==
    /\ tracer["A"].bound /\ tracer["A"].run_id = "r1"
    /\ Len(tracer["A"].traces) = 2 /\ ret = ListV(<<>>)

\* C5: with no context active, push changes nothing, pop returns its output
\* argument and changes nothing, and end returns an empty list.
C5_NoContext ==
    [][\A u \in Units :
          ~tracer[u].bound =>
            /\ \A n \in AllNames :
                  push(u, n) => UNCHANGED <<tracer, cur, heap, proxies, npush>>
            /\ \A a \in AllPopArgs :
                  pop(u, a[1], a[2]) =>
                     ret' = a[1] /\ UNCHANGED <<tracer, cur, heap, proxies>>
            /\ \A r \in RunIds :
                  end_tracing(u, r) =>
                     ret' = ListV(<<>>) /\ UNCHANGED <<tracer, cur, heap>>]_vars

C5_Witness == ~tracer["A"].bound /\ Len(heap) = 2 /\ ret = Val(1)

\* C6: pop with a context active and no trace current returns its output
\* argument, writes to no trace, leaves no trace current, and the trace
\* pushed next would be a new root.
C6_PopWithoutTrace ==
    [][\A u \in Units, a \in AllPopArgs :
          (tracer[u].bound /\ cur[u] = 0 /\ pop(u, a[1], a[2]))
              => /\ ret' = a[1]
                 /\ heap' = heap /\ tracer' = tracer /\ cur'[u] = 0
                 /\ PushRoots(u, Len(heap) + 1)'
                       = Append(tracer[u].traces, Len(heap) + 1)]_vars

C6_Witness ==
    /\ tracer["A"].bound /\ cur["A"] = 0 /\ ret = Val(1)
    /\ Len(tracer["A"].traces) = 1
    /\ heap[tracer["A"].traces[1]].output = NoneV
    /\ heap[tracer["A"].traces[1]].end_time # 0

\* C2: following Scenario on a fresh context, each pop makes the popped
\* trace's parent current (none after the root's pop), so tool_b becomes
\* tool_a's sibling: at the end the only root is flow with output 2 and the
\* children tool_a (output 1, no error) and tool_b (error E, no output).
C2_Nesting ==
    LET t == tracer[ScenUnit]
        c == cur[ScenUnit]
    IN
    /\ scen \in {1, 3, 5} => Len(t.traces) = 1 /\ c = t.traces[1]
    /\ scen = 2 => c = heap[t.traces[1]].children[1]
    /\ scen = 4 => c = heap[t.traces[1]].children[2]
    /\ scen = 6 =>
          /\ c = 0
          /\ Len(t.traces) = 1
          /\ LET f == heap[t.traces[1]] IN
             /\ f.name = "flow" /\ f.output = Val(2) /\ f.error = NoneV
             /\ Len(f.children) = 2
             /\ LET ta == heap[f.children[1]]
                    tb == heap[f.children[2]]
                IN /\ ta.name = "tool_a" /\ ta.output = Val(1) /\ ta.error = NoneV
                   /\ tb.name = "tool_b" /\ tb.output = NoneV
                   /\ tb.error = Val([message |-> "E", type |-> "ValueError"])
                   /\ ta.children = <<>> /\ tb.children = <<>>

C2_Witness == scen = Len(Scenario)

RECURSIVE SerIds(_)
\* The ids of the traces of a serialized forest.
SerIds(nodes) ==
    UNION {{nodes[i].id} \cup SerIds(nodes[i].children) : i \in 1..Len(nodes)}

\* C7: the tree a unit's end would return holds only traces that unit has
\* pushed, the unit's current trace is one it has pushed, and every popped
\* trace was popped by the unit that pushed it.
C7_UnitIsolation ==
    /\ \A u \in Units :
          /\ \A id \in SerIds(to_json(tracer[u])) : heap[id].owner = u
          /\ cur[u] # 0 => heap[cur[u]].owner = u
    /\ \A id \in 1..Len(heap) : heap[id].popper \in {"None", heap[id].owner}

C7_Witness ==
    /\ tracer["A"].bound /\ tracer["B"].bound
    /\ tracer["A"].traces # <<>> /\ tracer["B"].traces # <<>>
    /\ cur["A"] # 0
    /\ \E id \in tracer["B"].ids : heap[id].popper = "B"

\* C10: in every state a proxy's buffer is, in order, what consumers have
\* been yielded from it, which is the part of the wrapped sequence read so
\* far; and a request for the next item reads at most one more item.
C10_BufferIsYieldedPrefix ==
    [][\A p \in 1..Len(proxies') :
          /\ proxies'[p].items = proxies'[p].yielded
          /\ proxies'[p].items = SubSeq(proxies'[p].src, 1, proxies'[p].pos)
          /\ p <= Len(proxies) =>
                /\ proxies'[p].pos \in {proxies[p].pos, proxies[p].pos + 1}
                /\ (next_item(p) /\ proxies[p].pos < Len(proxies[p].src))
                      => proxies'[p].items
                           = Append(proxies[p].items,
                                    proxies[p].src[proxies[p].pos + 1])]_vars

C10_Witness ==
    \E p \in 1..Len(proxies) :
        /\ proxies[p].items = <<"a", "b">> /\ ~proxies[p].done
        /\ heap[proxies[p].trace].output = ProxyRef(p)

\* C8: no executor proxy is destroyed while a stream registered with it is
\* not done, and the release request made when the init context is left
\* destroys the executor proxy exactly when every stream registered with it
\* is done at that moment.
C8_ReleaseGate ==
    [][/\ \A e \in 1..Len(executors') :
             executors'[e].state = "destroyed"
                => \A p \in executors'[e].registry : proxies'[p].done
       /\ \A i \in 1..Len(sub.inits) :
             (init_teardown(i)
                /\ executors[sub.inits[i].target].state = "alive")
                => (executors'[sub.inits[i].target].state = "destroyed"
                      <=> all_exhausted(executors, proxies,
                                        sub.inits[i].target))]_vars

\* Two streams registered, one read to its end, the context left: the
\* executor proxy is still alive.
C8_Witness ==
    \E e \in 1..Len(executors) :
        /\ ~executors[e].open /\ executors[e].state = "alive"
        /\ Cardinality(executors[e].registry) = 2
        /\ \E p, q \in executors[e].registry :
              proxies[p].done /\ ~proxies[q].done

\* C9: an executor proxy whose init context has been exited is destroyed.
C9_ReleasedAfterExit ==
    \A e \in 1..Len(executors) :
        ~executors[e].open => executors[e].state = "destroyed"

\* C11: a pop whose output is a lazy sequence reads nothing from it: right
\* after the pop the new proxy has pulled no item and its buffer is empty,
\* the popped trace's output is the proxy, the caller is handed the
\* generator over the proxy, and what that generator has yielded is always
\* the wrapped sequence from its first item on, in order.
C11_WrapWithoutConsuming ==
    [][/\ \A u \in Units :
             (tracer[u].bound /\ cur[u] # 0 /\ pop(u, Iter(StreamItems), NoErr))
                => LET p == Len(proxies) + 1 IN
                   /\ Len(proxies') = p
                   /\ proxies'[p].src = StreamItems
                   /\ proxies'[p].pos = 0 /\ proxies'[p].items = <<>>
                   /\ proxies'[p].yielded = <<>> /\ ~proxies'[p].done
                   /\ heap'[cur[u]].output = ProxyRef(p)
                   /\ ret' = Gen(p)
       /\ \A p \in 1..Len(proxies') :
             proxies'[p].yielded
                = SubSeq(StreamItems, 1, Len(proxies'[p].yielded))]_vars

C11_Witness ==
    \E p \in 1..Len(proxies) :
        /\ ret = Gen(p) /\ proxies[p].pos = 0 /\ proxies[p].items = <<>>
        /\ heap[proxies[p].trace].output = ProxyRef(p)
        /\ heap[proxies[p].trace].end_time # 0

\* C12: once a consumer has read the last item of a traced call's lazy
\* output and asks for the next one, the proxy is done; and whenever a proxy
\* is done its buffer is the whole sequence [a, b, c] in order, and so is
\* the output of the trace it belongs to.
C12_DrainedOutput ==
    [][\A p \in 1..Len(proxies') :
          /\ (p <= Len(proxies) /\ next_item(p)
                /\ proxies[p].pos = Len(proxies[p].src))
                => proxies'[p].done
          /\ (proxies'[p].done /\ proxies'[p].trace # 0)
                => /\ proxies'[p].items = StreamItems
                   /\ heap'[proxies'[p].trace].output = ListV(StreamItems)]_vars

\* C13: all_exhausted() of an executor proxy is true exactly when every
\* stream registered with it is done; a registered stream stays registered,
\* is done only when it has been read to its end, and while it is not done
\* any step other than a read of it leaves it not done and all_exhausted()
\* false.
C13_AbandonedStaysOpen ==
    [][\A e \in 1..Len(executors') :
          /\ all_exhausted(executors', proxies', e)
                <=> (\A p \in executors'[e].registry : proxies'[p].done)
          /\ \A p \in executors'[e].registry :
                proxies'[p].done => proxies'[p].pos = Len(proxies'[p].src)
          /\ e <= Len(executors) =>
                \A p \in executors[e].registry :
                   /\ p \in executors'[e].registry
                   /\ (~proxies[p].done /\ ~next_item(p))
                         => /\ ~proxies'[p].done
                            /\ ~all_exhausted(executors', proxies', e)]_vars

\* One stream read to its end, the other left after its first item, the
\* init context exited.
C13_Witness ==
    \E e \in 1..Len(executors) :
        /\ ~executors[e].open
        /\ \E p, q \in executors[e].registry :
              /\ proxies[p].done
              /\ proxies[q].items = <<"a">> /\ ~proxies[q].done
        /\ ~all_exhausted(executors, proxies, e)

\* C14: a pop that wraps a lazy output while an executor proxy is alive in
\* the open init context registers the new proxy with that executor proxy,
\* and only that proxy.
C14_PopRegisters ==
    [][\A u \in Units :
          (tracer[u].bound /\ cur[u] # 0 /\ pop(u, Iter(StreamItems), NoErr)
             /\ InBody /\ sub.executor # 0
             /\ executors[sub.executor].state = "alive")
              => executors'[sub.executor].registry
                    = executors[sub.executor].registry \cup {Len(proxies) + 1}]_vars

\* C15: pop(error=E) without output on current trace T sets T.error to
\* {message: text of E, type: class name of E}, sets T.end_time, leaves
\* T.output unset, makes T's parent current and returns the (absent) output
\* argument; and every trace with an error has an end_time.
C15_ErrorPop ==
    [][/\ \A u \in Units :
             (tracer[u].bound /\ cur[u] # 0 /\ pop(u, NoneV, ErrE))
                => LET T == cur[u] IN
                   /\ heap'[T].error
                         = Val([message |-> "E", type |-> "ValueError"])
                   /\ heap'[T].end_time # 0
                   /\ heap'[T].output = NoneV
                   /\ cur'[u] = heap[T].parent_id
                   /\ ret' = NoneV
       /\ \A id \in 1..Len(heap') :
             heap'[id].error # NoneV => heap'[id].end_time # 0]_vars

C15_Witness ==
    \E id \in 1..Len(heap) :
        /\ heap[id].error = Val([message |-> "E", type |-> "ValueError"])
        /\ heap[id].output = NoneV /\ heap[id].end_time # 0
        /\ heap[id].parent_id # 0 /\ cur["A"] = heap[id].parent_id
        /\ ret = NoneV

\* C16: no call of the recorder raises into its caller.
C16_NeverRaises == ret[1] # "raise"

RECURSIVE SerOutputs(_)
\* The <<id, output>> pairs of the traces of a serialized forest.
SerOutputs(nodes) ==
    UNION {{<<nodes[i].id, nodes[i].output>>} \cup SerOutputs(nodes[i].children) :
              i \in 1..Len(nodes)}

\* C17: every output in the tree end returns is a plain value (absent, a
\* scalar or a sequence), never a proxy, a generator or a lazy sequence; a
\* trace whose output is a stream is returned with the sequence of the items
\* read from the stream up to that end call, drained or not; and reading a
\* stream afterwards leaves the returned tree as it was.
C17_ReturnedTreeIsPlain ==
    [][/\ (tracer["A"].bound /\ end_tracing("A", "None"))
             => /\ ret'[1] = "list"
                /\ \A o \in SerOutputs(ret'[2]) :
                      /\ o[2][1] \in {"None", "val", "list"}
                      /\ heap[o[1]].output[1] = "proxy"
                            => o[2] = ListV(SubSeq(StreamItems, 1,
                                        proxies[heap[o[1]].output[2]].pos))
       /\ \A p \in 1..Len(proxies) : next_item(p) => ret' = ret]_vars

\* end returned [a] for a stream that was read further afterwards.
C17_Witness ==
    /\ ret[1] = "list" /\ ret[2] # <<>>
    /\ ret[2][1].output = ListV(<<"a">>)
    /\ \E p \in 1..Len(proxies) :
          /\ proxies[p].trace = ret[2][1].id
          /\ proxies[p].items = <<"a", "b">>

\* C18: no step changes the children of a trace that has been popped.
C18_ChildrenFrozen ==
    [][\A id \in 1..Len(heap) :
          heap[id].end_time # 0 => heap'[id].children = heap[id].children]_vars

\* C19: no trace has been written to by more than one pop call.
C19_PoppedOnce == \A id \in 1..Len(heap) : heap[id].npop <= 1

\* The traces of the Tracer bound in u's context that u has pushed and no
\* pop has closed.
OwnOpen(u) ==
    {id \in tracer[u].ids : heap[id].owner = u /\ heap[id].npop = 0}

\* C20: with a main unit and a task on one Tracer, a push by a unit makes
\* the new trace the last child of the trace current in that unit (a new
\* last root if none is) and current in that unit only; a pop by a unit
\* with a current trace writes to that trace and no other, makes its parent
\* current in that unit and leaves the other unit's current trace as it is;
\* and the trace a pop closes is the latest trace the popping unit has
\* pushed itself and that is not popped.
C20_TaskLocalPointer ==
    [][\A u \in Units :
          /\ (tracer[u].bound /\ Len(heap) < MaxTraces /\ push(u, "flow"))
                => LET id == Len(heap) + 1 IN
                   /\ heap'[id].parent_id = cur[u]
                   /\ cur[u] # 0 =>
                         heap'[cur[u]].children = Append(heap[cur[u]].children, id)
                   /\ cur[u] = 0 =>
                         tracer'[u].traces = Append(tracer[u].traces, id)
                   /\ cur'[u] = id
                   /\ \A v \in Units \ {u} : cur'[v] = cur[v]
          /\ (tracer[u].bound /\ cur[u] # 0 /\ pop(u, Val(1), NoErr))
                => /\ heap'[cur[u]].poppers = heap[cur[u]].poppers \cup {u}
                   /\ heap'[cur[u]].output = Val(1)
                   /\ \A x \in 1..Len(heap) : x # cur[u] => heap'[x] = heap[x]
                   /\ cur'[u] = heap[cur[u]].parent_id
                   /\ \A v \in Units \ {u} : cur'[v] = cur[v]
          /\ (tracer[u].bound /\ cur[u] # 0 /\ pop(u, Val(1), NoErr))
                => /\ cur[u] \in OwnOpen(u)
                   /\ \A id \in OwnOpen(u) : id <= cur[u]]_vars

\* C21: in the tree of a context every child's start_time is at least its
\* parent's start_time.
C21_ChildStartsAfterParent ==
    \A p \in tracer["A"].ids :
        \A i \in 1..Len(heap[p].children) :
            heap[heap[p].children[i]].start_time >= heap[p].start_time

\* The traces in the root list of the Tracer bound in u's context.
RootSet(u) == {tracer[u].traces[i] : i \in 1..Len(tracer[u].traces)}

\* The traces that are in the children of a trace of that Tracer.
ChildSet(u) ==
    UNION {{heap[p].children[i] : i \in 1..Len(heap[p].children)} :
              p \in tracer[u].ids}

\* C22: in an active context every root has no parent_id and carries the
\* context's node name, every trace in a trace's children has that trace's
\* id as parent_id, and no trace is both a root and a child.
C22_RootsAndChildren ==
    tracer["A"].bound =>
        /\ \A r \in RootSet("A") :
              heap[r].parent_id = 0 /\ heap[r].node_name = tracer["A"].node_name
        /\ \A p \in tracer["A"].ids :
              \A i \in 1..Len(heap[p].children) :
                  heap[heap[p].children[i]].parent_id = p
        /\ RootSet("A") \cap ChildSet("A") = {}

\* C23: every root trace in the list a successful end returns has been
\* popped (its end_time is set) before the end call.
C23_EndReturnsCompletedRoots ==
    [][\A r \in RunIds :
          (tracer["A"].bound /\ r \in {"None", tracer["A"].run_id}
             /\ end_tracing("A", r))
              => /\ ret'[1] = "list"
                 /\ \A i \in 1..Len(ret'[2]) :
                       /\ ret'[2][i].end_time # 0
                       /\ heap[ret'[2][i].id].end_time # 0]_vars

\* C24: after an end that detaches the context, current_run_id() is none
\* and no context is bound; while none is bound no call changes any trace;
\* a start made then binds a context with an empty root list, an empty
\* lookup and no current trace; and the tree of a context holds only traces
\* pushed on that context, each push adding one new trace to its lookup.
C24_NeverReused ==
    [][/\ \A r \in RunIds :
             (tracer["A"].bound /\ r \in {"None", tracer["A"].run_id}
                /\ end_tracing("A", r))
                => /\ ~tracer'["A"].bound /\ cur'["A"] = 0
                   /\ current_run_id("A")' = "None"
       /\ ~tracer["A"].bound => heap' = heap
       /\ (~tracer["A"].bound /\ tracer'["A"].bound)
             => /\ tracer'["A"].traces = <<>> /\ tracer'["A"].ids = {}
                /\ cur'["A"] = 0
       /\ (tracer["A"].bound /\ tracer'["A"].bound
             /\ tracer'["A"].tid = tracer["A"].tid)
             => tracer'["A"].ids \in {tracer["A"].ids,
                                      tracer["A"].ids \cup {Len(heap) + 1}}
       /\ tracer'["A"].bound
             => SerIds(to_json(tracer["A"])') \subseteq tracer'["A"].ids]_vars

\* A second run with one trace of its own, after a first run of two.
C24_Witness ==
    /\ Len(heap) = 3
    /\ heap[1].node_name = "n1" /\ heap[2].parent_id = 1
    /\ tracer["A"].bound /\ tracer["A"].run_id = "r1"
    /\ tracer["A"].ids = {3} /\ tracer["A"].traces = <<3>> /\ cur["A"] = 3

\* The number of items the consumers of proxy p have received, all told.
Delivered(px, p) ==
    Len(px[p].got["log"]) + Len(px[p].got["chat"]) + Len(px[p].got["result"])

\* C25: whatever the consumers that share a stream do, every item pulled
\* from the wrapped sequence is pulled once, in order, buffered once and
\* received by one consumer; the sequence is never read beyond its end; and
\* once the proxy is exhausted a consumer that asks for more receives no
\* item and nothing changes.
C25_SinglePass ==
    [][\A p \in 1..Len(proxies') :
          /\ proxies'[p].pos <= Len(proxies'[p].src)
          /\ proxies'[p].yielded = SubSeq(proxies'[p].src, 1, proxies'[p].pos)
          /\ Len(proxies'[p].items) = proxies'[p].pos
          /\ Delivered(proxies', p) = proxies'[p].pos
          /\ (p <= Len(proxies) /\ proxies[p].done)
                => \A c \in Consumers :
                      consume(c, p) => proxies' = proxies /\ heap' = heap]_vars

\* The three consumers have received one item each and the stream is over.
C25_Witness ==
    \E p \in 1..Len(proxies) :
        /\ proxies[p].done
        /\ proxies[p].got = [c \in Consumers |->
               IF c = "log" THEN <<"a">>
               ELSE IF c = "chat" THEN <<"b">> ELSE <<"c">>]

\* C26: outside an init context (before the first init, and after an init
\* context was left, normally or by an exception) flow_test, node_test and
\* every guarded property raise a user error.
C26_GuardOutsideInit ==
    [][sub.inits = <<>> =>
          /\ \A aggregation \in BOOLEAN :
                flow_test(aggregation) => sub'.outcome = "UserError"
          /\ node_test => sub'.outcome = "UserError"
          /\ \A name \in GuardedProperties :
                read_property(name) => sub'.outcome = "UserError"]_vars

RECURSIVE ChainFrom(_, _)
\* The traces met from trace id on along the parent_id links, id first, as
\* far as n links are followed.
ChainFrom(id, n) ==
    IF id = 0 \/ n = 0 THEN <<>>
    ELSE <<id>> \o ChainFrom(heap[id].parent_id, n - 1)

\* The traces pushed on the Tracer bound in u's context and not popped
\* since.
OpenSet(u) == {id \in tracer[u].ids : heap[id].open}

\* C27: in one unit's active context the chain from the current trace
\* along the parent_id links ends at a root and holds exactly the traces
\* pushed and not yet popped, each once, innermost first (a trace comes
\* before the traces pushed before it); so the current trace, which a pop
\* closes, is the latest pushed of them.
C27_OpenChain ==
    tracer["A"].bound =>
        LET ch == ChainFrom(cur["A"], Len(heap) + 1) IN
        /\ Len(ch) <= Len(heap)
        /\ {ch[i] : i \in 1..Len(ch)} = OpenSet("A")
        /\ Len(ch) = Cardinality(OpenSet("A"))
        /\ \A i, j \in 1..Len(ch) : i < j => heap[ch[i]].seq > heap[ch[j]].seq
====
